---- MODULE Spec2Model ----
(***************************************************************************)
(* Authentication and session management of the freight server:           *)
(* AuthService (login with per-account lockout, refresh, password reset,  *)
(* logout), SessionService (token issue/verify and the session store),    *)
(* the per-IP rate limiter in front of /login and the session reaper.     *)
(*                                                                         *)
(* Time is Date.now() counted in whole seconds (every duration of the     *)
(* program is a whole number of seconds; see Ms).  The clock advances by   *)
(* one of the steps in TickSteps; two operations with no Tick between      *)
(* them see the same Date.now().  authenticateUser is split at the awaits  *)
(* whose intermediate persisted state can be observed (its saves and the   *)
(* session store); every other handler is one action.  Each concern has a  *)
(* specification of its own (SpecLockout, SpecSession, SpecRefresh,        *)
(* SpecReaper, SpecLimiter, SpecIpLock) over the same variables and        *)
(* actions.  In these one request runs at a time; SpecOverlap and          *)
(* SpecOverlapSessions run two logins whose awaits interleave.             *)
(***************************************************************************)
EXTENDS Integers, Sequences, FiniteSets, TLC

(***************************************************************************)
(* Bounds of the model.                                                    *)
(***************************************************************************)
MaxTicks == 3        \* clock advances in a behaviour of the lockout specification
SessionTicks == 2    \* clock advances in a behaviour of the session specification
ReaperTicks == 1     \* clock advances in a behaviour of the reaper specification
LimiterTicks == 2    \* clock advances in a behaviour of the limiter specification
MaxIpCount == 6      \* cap on the per-IP count of unknown-username attempts

(***************************************************************************)
(* Program constants.                                                      *)
(***************************************************************************)
\* milliseconds on the model's clock, whose unit is the second
Ms(ms) == ms \div 1000

MAX_LOGIN_ATTEMPTS == 5
LOCK_DURATION_MS == Ms(1 * 60 * 1000)
maxRequests == 5
windowMs == Ms(60 * 1000)
DAYS_TO_KEEP_SESSIONS == 7
CRON_MINUTES_TO_KEEP == 10
MsPerMinute == Ms(60 * 1000)
MsPerDay == Ms(24 * 60 * 60 * 1000)

\* Token configuration (environment values): distinct secrets, a short-lived
\* access token and a long-lived refresh token.
ACCESS_TOKEN_SECRET == "access-secret"
REFRESH_TOKEN_SECRET == "refresh-secret"
ACCESS_TOKEN_EXPIRE == 15 * MsPerMinute
REFRESH_TOKEN_EXPIRE == 7 * MsPerDay

\* The clock steps: half a lock window, the ten-minute retention of the
\* cron route and the seven-day retention of the scheduled-job controller.
TickSteps ==
  { LOCK_DURATION_MS \div 2,
    CRON_MINUTES_TO_KEEP * MsPerMinute,
    DAYS_TO_KEEP_SESSIONS * MsPerDay }

(***************************************************************************)
(* Value spaces.                                                           *)
(***************************************************************************)
UserIds == {"u1", "u2"}
UsernameOf == [u \in UserIds |-> IF u = "u1" THEN "alice" ELSE "bob"]
UnknownUsername == "mallory"
Usernames == {UsernameOf[u] : u \in UserIds} \cup {UnknownUsername}
IPs == {"ip1", "ip2"}
Procs == {"r1"}
\* the requests in flight at once in the specifications of overlapping requests
Slots == {"r1", "r2"}

\* Date | null
Null == -1

\* Passwords are strings over a two-letter alphabet and the blank.
pwA == <<"a">>
pwB == <<"b">>
pwAPadded == <<" ", "a", " ">>
PlainPasswords == {pwA, pwB}
LoginPasswords == {pwA, pwB, pwAPadded}

ROLE2 == "admin"
ROLE3 == "employee"

VARIABLES
  now,          \* Date.now()
  ticks,        \* clock advances so far
  users,        \* User collection: userId -> document
  sessions,     \* Session collection: sequence of rows (natural order)
  failedByIp,   \* FailedLoginAttempt collection: ip -> record
  timeoutId,    \* the rate limiter's single pending timer
  req,          \* per request slot: position in the handler and its locals
  client,       \* per user: the tokens returned by that user's latest login
                \* and the refresh token returned by the login before it
  run,          \* per user: consecutive wrong-password logins (history)
  reap          \* history of the session reaper

vars == <<now, ticks, users, sessions, failedByIp, timeoutId, req, client, run, reap>>

(***************************************************************************)
(* Credential hasher (utils/password.ts).                                  *)
(***************************************************************************)
RECURSIVE TrimStart(_)
TrimStart(s) ==
  IF s # <<>> /\ Head(s) = " " THEN TrimStart(Tail(s)) ELSE s

RECURSIVE TrimEnd(_)
TrimEnd(s) ==
  IF s # <<>> /\ s[Len(s)] = " " THEN TrimEnd(SubSeq(s, 1, Len(s) - 1)) ELSE s

\* String.prototype.trim
Trim(s) == TrimEnd(TrimStart(s))

\* bcryptjs.hash: the hash stands for the exact plaintext it was made from.
hashing(password) == [alg |-> "bcrypt", plain |-> password]

comparePasswords(bodyPassword, userPassword) ==
  Trim(bodyPassword) = userPassword.plain

(***************************************************************************)
(* Token issuer (services/session.ts).                                     *)
(***************************************************************************)
NoToken ==
  [secret |-> "", _id |-> "", username |-> "", resetPassword |-> FALSE,
   role |-> "", iat |-> Null, exp |-> Null]

generateUserPayload(userId, user) ==
  [_id |-> userId, username |-> user.username,
   resetPassword |-> user.resetPassword, role |-> user.role]

\* jsonwebtoken sign: the token is a function of payload, secret, iat and exp.
sign(payload, secret, expiresIn) ==
  [secret |-> secret, _id |-> payload._id, username |-> payload.username,
   resetPassword |-> payload.resetPassword, role |-> payload.role,
   iat |-> now, exp |-> now + expiresIn]

PayloadOf(token) ==
  [_id |-> token._id, username |-> token.username,
   resetPassword |-> token.resetPassword, role |-> token.role]

\* jsonwebtoken verify: signature made with this secret and not expired.
jwtVerify(token, secret) ==
  /\ token # NoToken
  /\ token.secret = secret
  /\ now < token.exp

generateAccessToken(userId, user) ==
  sign(generateUserPayload(userId, user), ACCESS_TOKEN_SECRET, ACCESS_TOKEN_EXPIRE)

generateRefreshToken(userId, user) ==
  sign(generateUserPayload(userId, user), REFRESH_TOKEN_SECRET, REFRESH_TOKEN_EXPIRE)

(***************************************************************************)
(* Session store (services/session.ts).                                    *)
(***************************************************************************)
RowsWithToken(token) == {i \in 1..Len(sessions) : sessions[i].refreshToken = token}
RowsOfUser(userId) == {i \in 1..Len(sessions) : sessions[i].userId = userId}

Min(S) == CHOOSE x \in S : \A y \in S : x <= y

RECURSIVE RemoveAt(_, _)
RemoveAt(s, i) ==
  IF s = <<>> THEN <<>>
  ELSE IF i = 1 THEN Tail(s)
  ELSE <<Head(s)>> \o RemoveAt(Tail(s), i - 1)

RECURSIVE SelectRows(_, _)
SelectRows(s, cutoff) ==
  IF s = <<>> THEN <<>>
  ELSE IF Head(s).lastLogin <= cutoff THEN SelectRows(Tail(s), cutoff)
  ELSE <<Head(s)>> \o SelectRows(Tail(s), cutoff)

\* verifyRefreshToken: TRUE when it returns the decoded payload.
verifyRefreshTokenOk(refreshToken) ==
  /\ RowsWithToken(refreshToken) # {}
  /\ jwtVerify(refreshToken, REFRESH_TOKEN_SECRET)

\* an access-token check made with the refresh secret
verifyAccessTokenWithRefreshSecret(token) ==
  jwtVerify(token, REFRESH_TOKEN_SECRET)

\* verifyAccessToken on the header "Bearer <token>".
verifyAccessTokenOk(token) ==
  jwtVerify(token, ACCESS_TOKEN_SECRET)

\* lastLogin = new Date();
\* findOneAndUpdate({userId}, {refreshToken, lastLogin}, {upsert: true})
storeRefreshTokenInDb(refreshToken, userId) ==
  LET lastLogin == now
  IN IF RowsOfUser(userId) # {}
       THEN [sessions EXCEPT ![Min(RowsOfUser(userId))] =
               [@ EXCEPT !.refreshToken = refreshToken, !.lastLogin = lastLogin]]
       ELSE Append(sessions,
               [refreshToken |-> refreshToken, userId |-> userId,
                lastLogin |-> lastLogin])

\* findOneAndRemove({refreshToken: cookie}); the caller checks for null first.
removeRefreshToken(cookie) ==
  RemoveAt(sessions, Min(RowsWithToken(cookie)))

\* a reaper that deletes one expired row per run (deleteOne)
removeOneExpiredSession(expirationDate) ==
  LET expired == {i \in 1..Len(sessions) : sessions[i].lastLogin <= expirationDate}
  IN IF expired = {} THEN sessions ELSE RemoveAt(sessions, Min(expired))

\* deleteMany({lastLogin: {$lte: expirationDate}})
removeExpiredSessions(expirationDate) ==
  SelectRows(sessions, expirationDate)

(***************************************************************************)
(* Request slots.                                                          *)
(***************************************************************************)
NoResult == [status |-> "none", error |-> "", message |-> ""]
Ok == [status |-> "ok", error |-> "", message |-> ""]
Err(class, message) == [status |-> "error", error |-> class, message |-> message]

InvalidCredentials == Err("AuthenticationError", "Invalid username or password.")
\* an answer that tells the caller the username does not exist
UnknownUsernameNamed == Err("AuthenticationError", "User not found.")
\* if (!user) throw new AuthenticationError('Invalid username or password.')
UnknownUsernameError == Err("AuthenticationError", "Invalid username or password.")
LockedRemaining == Err("AuthenticationError", "Account is locked. Try again after <remaining> hours")
LockedNow == Err("AuthenticationError", "Account is locked. Try again after 24 hours --->")
TooManyRequests == Err("ManyRequests", "Account is locked. try again later.")

\* no wrong-password login since the last successful one
NoRun == [count |-> 0, base |-> 0, nthAt |-> Null]

\* present: the document is in the collection (it has not been removed)
NoDoc ==
  [present |-> FALSE,
   username |-> "", password |-> hashing(<<>>), role |-> "",
   resetPassword |-> FALSE, failedLoginAttempts |-> 0,
   accountLocked |-> FALSE, lastFailedLoginDate |-> Null]

\* HTTP status codes of the responses
HTTP_STATUS ==
  [OK |-> 200, BAD_REQUEST |-> 400, UNAUTHORIZED |-> 401, FORBIDDEN |-> 403,
   CONFLICT |-> 409, INTERNAL_SERVER_ERROR |-> 500, TOO_MANY_REQUESTS |-> 429]

\* the status each error class is constructed with
errorStatus(error) ==
  CASE error = "ValidationError" -> HTTP_STATUS.BAD_REQUEST
    [] error = "AuthenticationError" -> HTTP_STATUS.UNAUTHORIZED
    [] error = "AuthorizationError" -> HTTP_STATUS.FORBIDDEN
    [] error = "ConflictError" -> HTTP_STATUS.CONFLICT
    [] error = "ManyRequests" -> HTTP_STATUS.TOO_MANY_REQUESTS
    [] OTHER -> HTTP_STATUS.INTERNAL_SERVER_ERROR

\* what the HTTP client receives: the status and whether the jwt cookie is cleared
NoResponse == [status |-> 0, clearCookie |-> FALSE]

\* the user records and the session rows at one instant
NoSnapshot == [users |-> [u \in UserIds |-> NoDoc], sessions |-> <<>>]

IdleReq ==
  [pc |-> "idle", op |-> "none", ip |-> "", username |-> "",
   password |-> <<>>, userId |-> "", doc |-> NoDoc, modified |-> {},
   accessToken |-> NoToken, refreshToken |-> NoToken,
   cookie |-> NoToken, result |-> NoResult,
   \* authenticateUser was entered: the request passed the rate limiter (history)
   entered |-> FALSE,
   \* what the handler saw when it read the account (history)
   sawLocked |-> FALSE, sawLastFailed |-> Null, checkedAt |-> Null,
   sawAttempts |-> 0, runBefore |-> NoRun,
   \* the valid session token of the user when the handler was entered (history)
   heldBefore |-> NoToken,
   confirmPassword |-> <<>>,
   \* the stored state when the handler was entered (history)
   before |-> NoSnapshot,
   \* the HTTP response of the controller
   response |-> NoResponse,
   \* const lastLogin = new Date() of a storeRefreshTokenInDb in progress
   lastLogin |-> Null]

UserByUsername(username) ==
  {u \in UserIds : users[u].present /\ users[u].username = username}

\* model.findById(userId)
findById(userId) == {u \in UserIds : u = userId /\ users[u].present}

\* Mongoose document set: a path is marked modified when its value changes.
SetPath(d, path, value) ==
  IF d.doc[path] = value THEN d
  ELSE [d EXCEPT !.doc = [@ EXCEPT ![path] = value],
                 !.modified = @ \cup {path}]

\* Mongoose document save: writes the modified paths only.
SaveDoc(userId, d) ==
  [users EXCEPT ![userId] =
     [path \in DOMAIN @ |-> IF path \in d.modified THEN d.doc[path] ELSE @[path]]]

Done(r, result) == [r EXCEPT !.pc = "done", !.result = result]

Snapshot == [users |-> users, sessions |-> sessions]

(***************************************************************************)
(* Initial state: two registered users, nobody logged in.                  *)
(***************************************************************************)
NewUser(u) ==
  [present |-> TRUE,
   username |-> UsernameOf[u], password |-> hashing(pwA), role |-> ROLE3,
   resetPassword |-> FALSE, failedLoginAttempts |-> 0,
   accountLocked |-> FALSE, lastFailedLoginDate |-> Null]

NoIpRecord == [present |-> FALSE, count |-> 0, lockTime |-> 0]
NoTimeout == [armed |-> FALSE, ip |-> "", due |-> 0]
NoClient == [accessToken |-> NoToken, refreshToken |-> NoToken, previous |-> NoToken]
\* history of the reaper: its last run (handler, cutoff, rows deleted), whether
\* a session was stored since (clean = none), and the run before it when the
\* last run followed it with no session stored in between (inRow)
NoReap ==
  [ran |-> FALSE, clean |-> FALSE, kind |-> "", cutoff |-> 0, deleted |-> 0,
   inRow |-> FALSE, prevKind |-> "", prevCutoff |-> 0, prevDeleted |-> 0]

Init ==
  /\ now = 0
  /\ ticks = 0
  /\ users = [u \in UserIds |-> NewUser(u)]
  /\ sessions = <<>>
  /\ failedByIp = [ip \in IPs |-> NoIpRecord]
  /\ timeoutId = NoTimeout
  /\ req = [p \in Procs |-> IdleReq]
  /\ client = [u \in UserIds |-> NoClient]
  /\ run = [u \in UserIds |-> NoRun]
  /\ reap = NoReap

\* the same state with room for two requests in flight
InitOverlap ==
  /\ now = 0
  /\ ticks = 0
  /\ users = [u \in UserIds |-> NewUser(u)]
  /\ sessions = <<>>
  /\ failedByIp = [ip \in IPs |-> NoIpRecord]
  /\ timeoutId = NoTimeout
  /\ req = [p \in Slots |-> IdleReq]
  /\ client = [u \in UserIds |-> NoClient]
  /\ run = [u \in UserIds |-> NoRun]
  /\ reap = NoReap

(***************************************************************************)
(* The clock.                                                              *)
(***************************************************************************)
Tick(d, limit) ==
  /\ ticks < limit
  /\ now' = now + d
  /\ ticks' = ticks + 1
  /\ UNCHANGED <<users, sessions, failedByIp, timeoutId, req, client, run, reap>>

(***************************************************************************)
(* History of consecutive wrong-password logins per account: count is the  *)
(* number of wrong-password authenticateUser calls since the account's     *)
(* last successful login (capped), base the persisted counter when the     *)
(* first of them was made, nthAt the persisted lastFailedLoginDate when    *)
(* the count reached MAX_LOGIN_ATTEMPTS.                                   *)
(***************************************************************************)
RunCap == MAX_LOGIN_ATTEMPTS + 1

RunAfterWrong(h, sawAttempts, persistedLastFailed) ==
  LET c == IF h.count < RunCap THEN h.count + 1 ELSE h.count
  IN [count |-> c,
      base |-> IF h.count = 0 THEN sawAttempts ELSE h.base,
      nthAt |-> IF h.count + 1 = MAX_LOGIN_ATTEMPTS THEN persistedLastFailed
                ELSE h.nthAt]

(***************************************************************************)
(* Per-IP rate limiter in front of POST /login (utils/limiter.ts).         *)
(***************************************************************************)
\* a lock check with the comparison turned around
IpLockElapsed(countDB) ==
  countDB.present /\ countDB.lockTime # 0 /\ now > countDB.lockTime

\* countDB?.lockTime && currentTime < countDB.lockTime
IpLockActive(countDB) ==
  countDB.present /\ countDB.lockTime # 0 /\ now < countDB.lockTime

\* a limiter that counts every attempt against the IP
LimiterCountsEveryAttempt(found) == found = found

\* if (!user): the limiter counts this attempt against the IP
LimiterCounts(found) == found = {}

\* newCountDB.count >= maxRequests
IpThresholdReached(count) == count >= maxRequests

Sequential(p) == \A q \in DOMAIN req \ {p} : req[q].pc = "idle"

\* the middleware's pass over one login request
rateLimiter(p, ip, username, password) ==
  /\ req[p].pc = "idle"
  /\ LET found == UserByUsername(username)
         countDB == failedByIp[ip]
         r0 == [IdleReq EXCEPT !.op = "login", !.ip = ip,
                               !.username = username, !.password = password]
     IN IF ~LimiterCounts(found) /\ IpLockActive(countDB)
          THEN /\ req' = [req EXCEPT ![p] = Done(r0, TooManyRequests)]
               /\ UNCHANGED <<failedByIp, timeoutId>>
        ELSE IF LimiterCounts(found)
          THEN /\ countDB.count < MaxIpCount
               /\ LET newCount == countDB.count + 1
                  IN IF IpThresholdReached(newCount)
                       THEN /\ failedByIp' = [failedByIp EXCEPT ![ip] =
                                 [present |-> TRUE, count |-> newCount,
                                  lockTime |-> now + windowMs]]
                            \* clearPreviousTimeout(); setLockTimeout(ip, windowMs)
                            /\ timeoutId' = [armed |-> TRUE, ip |-> ip,
                                             due |-> now + windowMs]
                            /\ req' = [req EXCEPT ![p] = Done(r0, TooManyRequests)]
                       ELSE /\ failedByIp' = [failedByIp EXCEPT ![ip] =
                                 [present |-> TRUE, count |-> newCount,
                                  lockTime |-> countDB.lockTime]]
                            /\ UNCHANGED timeoutId
                            /\ req' = [req EXCEPT ![p] = [r0 EXCEPT !.pc = "authenticate"]]
        ELSE /\ req' = [req EXCEPT ![p] = [r0 EXCEPT !.pc = "authenticate"]]
             /\ UNCHANGED <<failedByIp, timeoutId>>
  /\ UNCHANGED <<now, ticks, users, sessions, client, run, reap>>

\* a login request that arrives while no other request is in flight
RateLimiter(p, ip, username, password) ==
  /\ Sequential(p)
  /\ rateLimiter(p, ip, username, password)

\* the timer set by setLockTimeout fires: FailedLoginAttempt.deleteOne({ip})
LockTimeoutFires ==
  /\ timeoutId.armed
  /\ now >= timeoutId.due
  /\ failedByIp' = [failedByIp EXCEPT ![timeoutId.ip] = NoIpRecord]
  /\ timeoutId' = NoTimeout
  /\ UNCHANGED <<now, ticks, users, sessions, req, client, run, reap>>

(***************************************************************************)
(* AuthService.authenticateUser (services/auth.ts).                        *)
(***************************************************************************)
\* const lockDuration = LOCK_DURATION_MS - (Date.now() - lastFailedLoginDate)
LockRemaining(lastFailedLoginDate) ==
  LOCK_DURATION_MS - (now - lastFailedLoginDate)

\* a lock check that still rejects at the instant the lock duration ends
LockStillActiveInclusive(lastFailedLoginDate) ==
  LockRemaining(lastFailedLoginDate) >= 0

\* if (lockDuration > 0) throw
LockStillActive(lastFailedLoginDate) == LockRemaining(lastFailedLoginDate) > 0

\* a clearing of the stale lock that forgets the lock flag
ClearLockKeepsFlag(d) ==
  SetPath(SetPath(d, "failedLoginAttempts", 0), "lastFailedLoginDate", Null)

\* the stale lock is cleared on the in-memory document
ClearLock(d) ==
  SetPath(SetPath(SetPath(d, "failedLoginAttempts", 0),
                  "accountLocked", FALSE),
          "lastFailedLoginDate", Null)

\* the failure is recorded on the in-memory document
RecordFailure(d) ==
  SetPath(SetPath(d, "failedLoginAttempts", d.doc.failedLoginAttempts + 1),
          "lastFailedLoginDate", now)

\* a failure path without the threshold check
ThresholdNeverReached(attempts) == attempts < 0

\* a threshold check that locks one failure late
ThresholdReachedExclusive(attempts) == attempts > MAX_LOGIN_ATTEMPTS

\* if (user.failedLoginAttempts >= MAX_LOGIN_ATTEMPTS)
ThresholdReached(attempts) == attempts >= MAX_LOGIN_ATTEMPTS

\* findOne, the lock check and the password check, up to the first save
AuthCheck(p) ==
  /\ req[p].pc = "authenticate"
  /\ LET r == [req[p] EXCEPT !.entered = TRUE]
         found == UserByUsername(r.username)
     IN IF found = {}
          THEN /\ req' = [req EXCEPT ![p] = Done(r, UnknownUsernameError)]
               /\ UNCHANGED run
        ELSE
          LET u == CHOOSE x \in found : TRUE
              user == users[u]
              d0 == [r EXCEPT !.userId = u, !.doc = user, !.modified = {},
                              !.sawLocked = user.accountLocked,
                              !.sawLastFailed = user.lastFailedLoginDate,
                              !.sawAttempts = user.failedLoginAttempts,
                              !.checkedAt = now,
                              !.runBefore = run[u]]
              lockSet == user.accountLocked /\ user.lastFailedLoginDate # Null
              wrong == ~comparePasswords(r.password, user.password)
          IN IF lockSet /\ LockStillActive(user.lastFailedLoginDate)
               THEN /\ req' = [req EXCEPT ![p] = Done(d0, LockedRemaining)]
                    /\ run' = IF wrong
                                THEN [run EXCEPT ![u] =
                                        RunAfterWrong(@, user.failedLoginAttempts,
                                                      user.lastFailedLoginDate)]
                                ELSE run
             ELSE
               LET d1 == IF lockSet THEN ClearLock(d0) ELSE d0
               IN /\ req' = [req EXCEPT ![p] =
                       IF wrong THEN [RecordFailure(d1) EXCEPT !.pc = "save1"]
                       ELSE [d1 EXCEPT !.pc = "saveOk"]]
                  /\ UNCHANGED run
  /\ UNCHANGED <<now, ticks, users, sessions, failedByIp, timeoutId, client, reap>>

\* first save of the failure path, then the threshold check
SaveFailure(p) ==
  /\ req[p].pc = "save1"
  /\ LET r == req[p]
         u == r.userId
         saved == [r EXCEPT !.modified = {}]
     IN /\ users' = SaveDoc(u, r)
        /\ IF ThresholdReached(r.doc.failedLoginAttempts)
             THEN /\ req' = [req EXCEPT ![p] =
                       [SetPath(saved, "accountLocked", TRUE) EXCEPT !.pc = "save2"]]
                  /\ UNCHANGED run
             ELSE /\ req' = [req EXCEPT ![p] = Done(saved, InvalidCredentials)]
                  /\ run' = [run EXCEPT ![u] =
                       RunAfterWrong(@, r.sawAttempts, r.doc.lastFailedLoginDate)]
  /\ UNCHANGED <<now, ticks, sessions, failedByIp, timeoutId, client, reap>>

\* second save of the failure path: the lock flag
SaveLock(p) ==
  /\ req[p].pc = "save2"
  /\ LET r == req[p]
         u == r.userId
     IN /\ users' = SaveDoc(u, r)
        /\ req' = [req EXCEPT ![p] = Done([r EXCEPT !.modified = {}], LockedNow)]
        /\ run' = [run EXCEPT ![u] =
             RunAfterWrong(@, r.sawAttempts, r.doc.lastFailedLoginDate)]
  /\ UNCHANGED <<now, ticks, sessions, failedByIp, timeoutId, client, reap>>

\* save of the success path, then the two tokens are signed
SaveSuccess(p) ==
  /\ req[p].pc = "saveOk"
  /\ LET r == req[p]
         u == r.userId
     IN /\ users' = SaveDoc(u, r)
        /\ req' = [req EXCEPT ![p] =
             [r EXCEPT !.pc = "store", !.modified = {},
                       !.accessToken = generateAccessToken(u, r.doc),
                       !.refreshToken = generateRefreshToken(u, r.doc)]]
  /\ UNCHANGED <<now, ticks, sessions, failedByIp, timeoutId, client, run, reap>>

\* storeRefreshTokenInDb, then the tokens are returned
StoreSession(p) ==
  /\ req[p].pc = "store"
  /\ LET r == req[p]
         u == r.userId
     IN /\ sessions' = storeRefreshTokenInDb(r.refreshToken, u)
        /\ req' = [req EXCEPT ![p] = Done(r, Ok)]
        /\ client' = [client EXCEPT ![u] =
             [accessToken |-> r.accessToken, refreshToken |-> r.refreshToken,
              previous |-> client[u].refreshToken]]
        /\ run' = [run EXCEPT ![u] = NoRun]
        /\ reap' = [reap EXCEPT !.clean = FALSE]
  /\ UNCHANGED <<now, ticks, users, failedByIp, timeoutId>>

\* storeRefreshTokenInDb under overlapping requests.  The collection has no
\* unique index on userId, so the upsert of findOneAndUpdate is a query
\* followed by an insert when the query matched nothing; a matching row is
\* updated in place.
UpsertFind(p) ==
  /\ req[p].pc = "store"
  /\ LET r == req[p]
         u == r.userId
     IN IF RowsOfUser(u) # {}
          THEN /\ sessions' = storeRefreshTokenInDb(r.refreshToken, u)
               /\ req' = [req EXCEPT ![p] = Done(r, Ok)]
               /\ client' = [client EXCEPT ![u] =
                    [accessToken |-> r.accessToken, refreshToken |-> r.refreshToken,
                     previous |-> client[u].refreshToken]]
               /\ run' = [run EXCEPT ![u] = NoRun]
               /\ reap' = [reap EXCEPT !.clean = FALSE]
          ELSE /\ req' = [req EXCEPT ![p] = [r EXCEPT !.pc = "insert", !.lastLogin = now]]
               /\ UNCHANGED <<sessions, client, run, reap>>
  /\ UNCHANGED <<now, ticks, users, failedByIp, timeoutId>>

\* the insert of an upsert whose query matched nothing
UpsertInsert(p) ==
  /\ req[p].pc = "insert"
  /\ LET r == req[p]
         u == r.userId
     IN /\ sessions' = Append(sessions,
                              [refreshToken |-> r.refreshToken, userId |-> u,
                               lastLogin |-> r.lastLogin])
        /\ req' = [req EXCEPT ![p] = Done(r, Ok)]
        /\ client' = [client EXCEPT ![u] =
             [accessToken |-> r.accessToken, refreshToken |-> r.refreshToken,
              previous |-> client[u].refreshToken]]
        /\ run' = [run EXCEPT ![u] = NoRun]
        /\ reap' = [reap EXCEPT !.clean = FALSE]
  /\ UNCHANGED <<now, ticks, users, failedByIp, timeoutId>>

\* the response has been sent; the slot is free again
Respond(p) ==
  /\ req[p].pc = "done"
  /\ req' = [req EXCEPT ![p] = IdleReq]
  /\ UNCHANGED <<now, ticks, users, sessions, failedByIp, timeoutId, client, run, reap>>

(***************************************************************************)
(* AuthService.refreshAccessToken behind GET /refresh-token.               *)
(***************************************************************************)
\* a verification that consumes the presented token (rotation)
sessionsAfterConsume(refreshToken) ==
  IF RowsWithToken(refreshToken) = {} THEN sessions
  ELSE removeRefreshToken(refreshToken)

\* verifyRefreshToken reads the store (findOne) and writes nothing
sessionsAfterVerify(refreshToken) == sessions

\* a refresh that copies the identity embedded in the refresh token
memberFromToken(refreshToken) ==
  [username |-> refreshToken.username, role |-> refreshToken.role,
   resetPassword |-> refreshToken.resetPassword]

\* member = findById(userInformation._id): the user record at refresh time
memberOfToken(refreshToken) == users[refreshToken._id]

\* the outcome of refreshAccessToken(refreshToken) in the current state
refreshAccessTokenResult(refreshToken) ==
  IF refreshToken = NoToken
    THEN Err("AuthenticationError", "Cookie muse be provided.")
  ELSE IF RowsWithToken(refreshToken) = {}
    THEN Err("InternalError", "Token not found in the database.")
  ELSE IF ~jwtVerify(refreshToken, REFRESH_TOKEN_SECRET)
    THEN Err("JsonWebTokenError", "invalid or expired token")
  ELSE IF findById(refreshToken._id) = {}
    THEN Err("InternalError", "User not found in the database.")
  ELSE Ok

RefreshAccessToken(p, refreshToken) ==
  /\ req[p].pc = "idle"
  /\ Sequential(p)
  /\ LET r0 == [IdleReq EXCEPT !.op = "refresh", !.cookie = refreshToken,
                               !.before = Snapshot]
         result == refreshAccessTokenResult(refreshToken)
     IN /\ req' = [req EXCEPT ![p] =
          IF result = Ok
            THEN Done([r0 EXCEPT !.userId = refreshToken._id,
                         !.accessToken =
                            generateAccessToken(refreshToken._id,
                                                memberOfToken(refreshToken))],
                      Ok)
            ELSE Done(r0, result)]
        /\ sessions' = sessionsAfterVerify(refreshToken)
  /\ UNCHANGED <<now, ticks, users, failedByIp, timeoutId, client, run, reap>>

(***************************************************************************)
(* POST /reset-password: userAuthentication, then                          *)
(* AuthService.resetUserPassword(request.user._id, cookies.jwt, ...).      *)
(***************************************************************************)
\* the refresh token the user holds as a valid session token, if any
ValidSessionTokenOf(userId) ==
  LET held == {sessions[i].refreshToken : i \in RowsOfUser(userId)}
      valid == {t \in held : refreshAccessTokenResult(t) = Ok}
  IN IF valid = {} THEN NoToken ELSE CHOOSE t \in valid : TRUE

\* updatePassword: findByIdAndUpdate(userId, {password, resetPassword: true})
updatePassword(userId, password) ==
  [users EXCEPT ![userId] = [@ EXCEPT !.password = password, !.resetPassword = TRUE]]

ResetPassword(p, accessToken, cookie, password, confirmPassword) ==
  /\ req[p].pc = "idle"
  /\ Sequential(p)
  /\ LET userId == accessToken._id
         r0 == [IdleReq EXCEPT !.op = "reset", !.cookie = cookie, !.userId = userId,
                               !.password = password, !.accessToken = accessToken,
                               !.confirmPassword = confirmPassword,
                               !.before = Snapshot,
                               !.heldBefore = ValidSessionTokenOf(userId)]
     IN IF ~verifyAccessTokenOk(accessToken)
          THEN /\ req' = [req EXCEPT ![p] =
                    Done(r0, Err("AuthorizationError", "Invalid Token"))]
               /\ UNCHANGED <<users, sessions>>
        ELSE IF cookie = NoToken
          THEN /\ req' = [req EXCEPT ![p] =
                    Done(r0, Err("AuthenticationError", "Cookie must be provided."))]
               /\ UNCHANGED <<users, sessions>>
        ELSE IF findById(userId) = {}
          THEN /\ req' = [req EXCEPT ![p] =
                    Done(r0, Err("AuthenticationError", "Member not found."))]
               /\ UNCHANGED <<users, sessions>>
        ELSE IF password # confirmPassword
          THEN /\ req' = [req EXCEPT ![p] =
                    Done(r0, Err("AuthenticationError", "Passwords do not match."))]
               /\ UNCHANGED <<users, sessions>>
        ELSE /\ users' = updatePassword(userId, hashing(password))
             /\ IF RowsWithToken(cookie) = {}
                  THEN /\ req' = [req EXCEPT ![p] =
                            Done(r0, Err("InternalError",
                                         "Refresh token not found in the database."))]
                       /\ UNCHANGED sessions
                  ELSE /\ sessions' = removeRefreshToken(cookie)
                       /\ req' = [req EXCEPT ![p] = Done(r0, Ok)]
  /\ UNCHANGED <<now, ticks, failedByIp, timeoutId, client, run, reap>>

(***************************************************************************)
(* A protected route (GET /user-profile) behind authMiddlewares: userAuth  *)
(* puts the payload of the access token on the request, authResetPassword  *)
(* reads the reset flag of that payload.                                   *)
(***************************************************************************)
\* a guard that lets every authenticated request through
authResetPasswordSkipped(user) == Ok

\* if (request.user.resetPassword === false) throw new AuthorizationError(...)
authResetPassword(user) ==
  IF user.resetPassword = FALSE
    THEN Err("AuthorizationError", "Please reset your password.")
    ELSE Ok

ProtectedRoute(p, accessToken) ==
  /\ req[p].pc = "idle"
  /\ Sequential(p)
  /\ LET r0 == [IdleReq EXCEPT !.op = "profile", !.accessToken = accessToken,
                               !.userId = accessToken._id]
     IN req' = [req EXCEPT ![p] =
          IF accessToken = NoToken
            THEN Done(r0, Err("AuthenticationError", "Access denied. No token provided."))
          ELSE IF ~verifyAccessTokenOk(accessToken)
            THEN Done(r0, Err("AuthorizationError", "Invalid Token"))
          ELSE Done(r0, authResetPassword(PayloadOf(accessToken)))]
  /\ UNCHANGED <<now, ticks, users, sessions, failedByIp, timeoutId, client, run, reap>>

(***************************************************************************)
(* AuthController.logout over AuthService.logoutUser, behind DELETE        *)
(* /logout: the cookie is cleared and 200 sent after logoutUser returned;  *)
(* an error of logoutUser is passed to the error middlewares, which answer *)
(* with the status of its class.                                           *)
(***************************************************************************)
logout(result) ==
  IF result = Ok
    THEN [status |-> HTTP_STATUS.OK, clearCookie |-> TRUE]
    ELSE [status |-> errorStatus(result.error), clearCookie |-> FALSE]

LogoutDone(r, result) == [Done(r, result) EXCEPT !.response = logout(result)]

LogoutUser(p, cookie) ==
  /\ req[p].pc = "idle"
  /\ Sequential(p)
  /\ LET r0 == [IdleReq EXCEPT !.op = "logout", !.cookie = cookie,
                               !.before = Snapshot]
     IN IF cookie = NoToken
          THEN /\ req' = [req EXCEPT ![p] =
                    LogoutDone(r0, Err("AuthenticationError", "Cookie must be provided."))]
               /\ UNCHANGED sessions
        ELSE IF RowsWithToken(cookie) = {}
          THEN /\ req' = [req EXCEPT ![p] =
                    LogoutDone(r0, Err("InternalError",
                                       "Refresh token not found in the database."))]
               /\ UNCHANGED sessions
        ELSE /\ sessions' = removeRefreshToken(cookie)
             /\ req' = [req EXCEPT ![p] = LogoutDone(r0, Ok)]
  /\ UNCHANGED <<now, ticks, users, failedByIp, timeoutId, client, run, reap>>

(***************************************************************************)
(* UserService: removal of a member and change of a member's role, made    *)
(* between the requests of the authentication service.                     *)
(***************************************************************************)
NoRequestInFlight == \A p \in DOMAIN req : req[p].pc = "idle"

\* findByIdAndRemove(id); a missing member is an error and changes nothing
removeMember(id) ==
  /\ NoRequestInFlight
  /\ findById(id) # {}
  /\ users' = [users EXCEPT ![id] = [@ EXCEPT !.present = FALSE]]
  /\ UNCHANGED <<now, ticks, sessions, failedByIp, timeoutId, req, client, run, reap>>

\* findByIdAndUpdate(id, {role: memberRole}) for an allowed role
editMemberRole(id, memberRole) ==
  /\ NoRequestInFlight
  /\ memberRole \in {ROLE2, ROLE3}
  /\ findById(id) # {}
  /\ users[id].role # memberRole
  /\ users' = [users EXCEPT ![id] = [@ EXCEPT !.role = memberRole]]
  /\ UNCHANGED <<now, ticks, sessions, failedByIp, timeoutId, req, client, run, reap>>

(***************************************************************************)
(* Session reaper: ScheduledJobController.cronTask and the /cron-job       *)
(* route handler of api/globalRoutes.ts.                                   *)
(***************************************************************************)
\* expirationDate.setDate(expirationDate.getDate() - DAYS_TO_KEEP_SESSIONS)
CronTaskCutoff == now - DAYS_TO_KEEP_SESSIONS * MsPerDay

\* expirationDate.setMinutes(expirationDate.getMinutes() - 10)
CronRouteCutoff == now - CRON_MINUTES_TO_KEEP * MsPerMinute

Reap(p, kind, expirationDate) ==
  /\ req[p].pc = "idle"
  /\ Sequential(p)
  /\ sessions' = removeExpiredSessions(expirationDate)
  /\ reap' = [ran |-> TRUE, clean |-> TRUE, kind |-> kind,
              cutoff |-> expirationDate,
              deleted |-> Len(sessions) - Len(sessions'),
              inRow |-> reap.ran /\ reap.clean,
              prevKind |-> reap.kind, prevCutoff |-> reap.cutoff,
              prevDeleted |-> reap.deleted]
  /\ req' = [req EXCEPT ![p] = Done([IdleReq EXCEPT !.op = "cron"], Ok)]
  /\ UNCHANGED <<now, ticks, users, failedByIp, timeoutId, client, run>>

cronTask(p) == Reap(p, "cronTask", CronTaskCutoff)

yourCronTaskHandler(p) == Reap(p, "yourCronTaskHandler", CronRouteCutoff)

(***************************************************************************)
(* What the clients can send.                                              *)
(***************************************************************************)
HeldAccessTokens == {client[u].accessToken : u \in UserIds}
HeldRefreshTokens == {client[u].refreshToken : u \in UserIds}
\* a cookie value that no login ever returned
ForgedCookie ==
  [secret |-> "forged", _id |-> "u1", username |-> "alice",
   resetPassword |-> FALSE, role |-> ROLE3, iat |-> 0, exp |-> REFRESH_TOKEN_EXPIRE]
Cookies == HeldRefreshTokens \cup HeldAccessTokens \cup {NoToken, ForgedCookie}

LoginSteps(p) ==
  \/ AuthCheck(p)
  \/ SaveFailure(p)
  \/ SaveLock(p)
  \/ SaveSuccess(p)
  \/ StoreSession(p)
  \/ Respond(p)

(***************************************************************************)
(* The whole system.                                                       *)
(***************************************************************************)
Next ==
  \/ \E d \in TickSteps : Tick(d, MaxTicks)
  \/ LockTimeoutFires
  \/ \E p \in Procs, ip \in IPs, username \in Usernames, password \in LoginPasswords :
       RateLimiter(p, ip, username, password)
  \/ \E p \in Procs : LoginSteps(p)
  \/ \E p \in Procs, t \in Cookies : RefreshAccessToken(p, t)
  \/ \E p \in Procs, a \in HeldAccessTokens, c \in Cookies,
        pw \in PlainPasswords, cpw \in PlainPasswords :
       ResetPassword(p, a, c, pw, cpw)
  \/ \E p \in Procs, c \in Cookies : LogoutUser(p, c)
  \/ \E p \in Procs : cronTask(p)
  \/ \E p \in Procs : yourCronTaskHandler(p)
  \/ \E id \in UserIds, memberRole \in {ROLE2, ROLE3} : editMemberRole(id, memberRole)
  \/ \E id \in UserIds : removeMember(id)
  \/ \E p \in Procs, a \in HeldAccessTokens : ProtectedRoute(p, a)

Spec == Init /\ [][Next]_vars

(***************************************************************************)
(* Lockout of one account over a few lock windows: logins of alice from    *)
(* one address, with the right and with wrong passwords.                   *)
(***************************************************************************)
NextLockout ==
  \/ Tick(LOCK_DURATION_MS \div 2, MaxTicks)
  \/ \E p \in Procs, password \in LoginPasswords :
       RateLimiter(p, "ip1", "alice", password)
  \/ \E p \in Procs : LoginSteps(p)

SpecLockout == Init /\ [][NextLockout]_vars

(***************************************************************************)
(* Sessions of two users: logins with the account's current password (the  *)
(* failure path of the login is never entered), refresh, password reset    *)
(* and logout, over retention-sized clock steps.                           *)
(***************************************************************************)
SessionCookies == HeldRefreshTokens \cup {NoToken}

SessionLogin ==
  \/ \E p \in Procs, u \in UserIds :
       RateLimiter(p, "ip1", UsernameOf[u], users[u].password.plain)
  \/ \E p \in Procs : AuthCheck(p)
  \/ \E p \in Procs : SaveSuccess(p)
  \/ \E p \in Procs : StoreSession(p)
  \/ \E p \in Procs : Respond(p)

NextSession ==
  \/ \E d \in TickSteps \ {LOCK_DURATION_MS \div 2} : Tick(d, SessionTicks)
  \/ SessionLogin
  \/ \E p \in Procs, t \in SessionCookies \cup HeldAccessTokens :
       RefreshAccessToken(p, t)
  \/ \E p \in Procs, a \in HeldAccessTokens, c \in SessionCookies,
        cpw \in PlainPasswords :
       ResetPassword(p, a, c, pwB, cpw)
  \/ \E p \in Procs, c \in SessionCookies : LogoutUser(p, c)

SpecSession == Init /\ [][NextSession]_vars

(***************************************************************************)
(* Refresh against a changing user record: one user logs in and refreshes  *)
(* while the record is reset, given another role or removed.               *)
(***************************************************************************)
NextRefresh ==
  \/ Tick(CRON_MINUTES_TO_KEEP * MsPerMinute, SessionTicks)
  \/ \E p \in Procs : RateLimiter(p, "ip1", "alice", users["u1"].password.plain)
  \/ \E p \in Procs : AuthCheck(p)
  \/ \E p \in Procs : SaveSuccess(p)
  \/ \E p \in Procs : StoreSession(p)
  \/ \E p \in Procs : Respond(p)
  \/ \E p \in Procs, t \in SessionCookies : RefreshAccessToken(p, t)
  \/ \E p \in Procs, a \in HeldAccessTokens, c \in SessionCookies :
       ResetPassword(p, a, c, pwB, pwB)
  \/ \E memberRole \in {ROLE2, ROLE3} : editMemberRole("u1", memberRole)
  \/ removeMember("u1")
  \/ \E p \in Procs, a \in HeldAccessTokens : ProtectedRoute(p, a)

SpecRefresh == Init /\ [][NextRefresh]_vars

(***************************************************************************)
(* The session reaper over the sessions of two users: logins, logout and   *)
(* the two reaper handlers, over retention-sized clock steps.              *)
(***************************************************************************)
NextReaper ==
  \/ \E d \in TickSteps \ {LOCK_DURATION_MS \div 2} : Tick(d, ReaperTicks)
  \/ SessionLogin
  \/ \E p \in Procs, c \in SessionCookies : LogoutUser(p, c)
  \/ \E p \in Procs : cronTask(p)
  \/ \E p \in Procs : yourCronTaskHandler(p)

SpecReaper == Init /\ [][NextReaper]_vars

(***************************************************************************)
(* The rate limiter: logins with an unknown username from two addresses    *)
(* and logins of a known user, right and wrong password, from one of them. *)
(***************************************************************************)
NextLimiter ==
  \/ Tick(windowMs \div 2, LimiterTicks)
  \/ LockTimeoutFires
  \/ \E p \in Procs, ip \in IPs : RateLimiter(p, ip, UnknownUsername, pwA)
  \/ \E p \in Procs, password \in {pwA, pwB} :
       RateLimiter(p, "ip1", "alice", password)
  \/ \E p \in Procs : LoginSteps(p)

SpecLimiter == Init /\ [][NextLimiter]_vars

(***************************************************************************)
(* The lock of an address: logins with an unknown username and logins of a *)
(* known user with the right password, from two addresses.                 *)
(***************************************************************************)
NextIpLock ==
  \/ Tick(windowMs \div 2, LimiterTicks)
  \/ LockTimeoutFires
  \/ \E p \in Procs, ip \in IPs : RateLimiter(p, ip, UnknownUsername, pwA)
  \/ \E p \in Procs, ip \in IPs :
       RateLimiter(p, ip, "alice", users["u1"].password.plain)
  \/ \E p \in Procs : AuthCheck(p)
  \/ \E p \in Procs : SaveSuccess(p)
  \/ \E p \in Procs : StoreSession(p)
  \/ \E p \in Procs : Respond(p)

SpecIpLock == Init /\ [][NextIpLock]_vars

(***************************************************************************)
(* Overlapping logins of one account: two requests in flight, each at its  *)
(* own await of authenticateUser, with the right and with a wrong           *)
(* password, all within one second of the clock.                           *)
(***************************************************************************)
NextOverlap ==
  \/ \E p \in Slots, password \in PlainPasswords :
       rateLimiter(p, "ip1", "alice", password)
  \/ \E p \in Slots : LoginSteps(p)

SpecOverlap == InitOverlap /\ [][NextOverlap]_vars

(***************************************************************************)
(* Overlapping successful logins of one user: two requests in flight, the  *)
(* upsert of the session row split at the database.                        *)
(***************************************************************************)
NextOverlapSessions ==
  \/ Tick(CRON_MINUTES_TO_KEEP * MsPerMinute, SessionTicks)
  \/ \E p \in Slots : rateLimiter(p, "ip1", "alice", users["u1"].password.plain)
  \/ \E p \in Slots : AuthCheck(p)
  \/ \E p \in Slots : SaveSuccess(p)
  \/ \E p \in Slots : UpsertFind(p)
  \/ \E p \in Slots : UpsertInsert(p)
  \/ \E p \in Slots : Respond(p)
  \/ \E p \in Slots, c \in HeldRefreshTokens : LogoutUser(p, c)

SpecOverlapSessions == InitOverlap /\ [][NextOverlapSessions]_vars

(***************************************************************************)
(* Properties of the per-account lockout (SpecLockout).                    *)
(***************************************************************************)
\* a login request that reached the account it names
LoginOf(p, u) == req[p].op = "login" /\ req[p].userId = u

PastLockCheck(p) == req[p].pc \in {"save1", "save2", "saveOk", "store", "done"}

PasswordIsRight(p, u) == comparePasswords(req[p].password, users[u].password)

NoTokensIssued(p) ==
  req[p].accessToken = NoToken /\ req[p].refreshToken = NoToken

\* C1: once MAX_LOGIN_ATTEMPTS consecutive wrong-password logins have been
\* made against an account (the last of them leaving lastFailedLoginDate = T),
\* every further authenticateUser call for it that is made before T +
\* LOCK_DURATION_MS fails with the locked-account error and issues no tokens.
LockoutThreshold ==
  \A p \in Procs, u \in UserIds :
    ( /\ LoginOf(p, u)
      /\ PastLockCheck(p)
      /\ req[p].runBefore.count >= MAX_LOGIN_ATTEMPTS
      /\ req[p].runBefore.nthAt # Null
      /\ req[p].checkedAt < req[p].runBefore.nthAt + LOCK_DURATION_MS )
    => ( /\ req[p].pc = "done"
         /\ req[p].result = LockedRemaining
         /\ NoTokensIssued(p) )

\* the account was locked with last failure at T and the call was made at or
\* after T + LOCK_DURATION_MS with the right password
StaleLockRightPassword(p, u) ==
  /\ LoginOf(p, u)
  /\ PastLockCheck(p)
  /\ req[p].sawLocked
  /\ req[p].sawLastFailed # Null
  /\ req[p].checkedAt >= req[p].sawLastFailed + LOCK_DURATION_MS
  /\ PasswordIsRight(p, u)

\* C2: a login with the right password made at or after T + LOCK_DURATION_MS
\* (T the last failure of a locked account) returns both tokens and leaves the
\* persisted record with failedLoginAttempts = 0, accountLocked = FALSE and
\* lastFailedLoginDate = null.
LockExpiry ==
  \A p \in Procs, u \in UserIds :
    StaleLockRightPassword(p, u)
    => ( /\ req[p].pc \in {"saveOk", "store", "done"}
         /\ req[p].pc = "done"
            => ( /\ req[p].result = Ok
                 /\ req[p].accessToken # NoToken
                 /\ req[p].refreshToken # NoToken
                 /\ users[u].failedLoginAttempts = 0
                 /\ users[u].accountLocked = FALSE
                 /\ users[u].lastFailedLoginDate = Null ) )

\* C2 witness: such a login, made exactly at T + LOCK_DURATION_MS, has returned.
LockExpiryAtBoundary ==
  \E p \in Procs, u \in UserIds :
    /\ StaleLockRightPassword(p, u)
    /\ req[p].pc = "done"
    /\ req[p].checkedAt = req[p].sawLastFailed + LOCK_DURATION_MS

\* C3: in every persisted state of a user record, accountLocked implies a
\* non-null lastFailedLoginDate and failedLoginAttempts >= MAX_LOGIN_ATTEMPTS.
UserRecordInvariant ==
  \A u \in UserIds :
    users[u].accountLocked
    => ( /\ users[u].lastFailedLoginDate # Null
         /\ users[u].failedLoginAttempts >= MAX_LOGIN_ATTEMPTS )

\* C3 witness: the threshold-crossing failure has made both of its saves and
\* the persisted record is locked.
RecordJustLocked ==
  \E p \in Procs, u \in UserIds :
    /\ LoginOf(p, u)
    /\ req[p].pc = "done"
    /\ req[p].result = LockedNow
    /\ users[u].accountLocked

\* C4: after a login that returned tokens the persisted failedLoginAttempts
\* of that user is 0.
SuccessLeavesCounterZero ==
  \A p \in Procs, u \in UserIds :
    ( LoginOf(p, u) /\ req[p].pc = "done" /\ req[p].result = Ok )
    => users[u].failedLoginAttempts = 0

\* a wrong-password login that has returned and was the k-th in a row on an
\* account whose counter was zero before the first of them
KthWrongFromZero(p, u, k) ==
  /\ LoginOf(p, u)
  /\ req[p].pc = "done"
  /\ ~PasswordIsRight(p, u)
  /\ run[u].count = k
  /\ run[u].base = 0

\* the next attempt after five wrong ones in a row from a zero counter, made
\* within the lock window
SixthWithinWindow(p, u) ==
  /\ LoginOf(p, u)
  /\ req[p].pc = "done"
  /\ req[p].runBefore.count = MAX_LOGIN_ATTEMPTS
  /\ req[p].runBefore.base = 0
  /\ req[p].checkedAt < req[p].runBefore.nthAt + LOCK_DURATION_MS

\* C10 as claimed: the 5th wrong-password login in a row from a zero counter
\* is answered with the generic invalid-credentials error, and the 6th attempt
\* within the lock window with the locked-account error.
FifthIsGeneric ==
  \A p \in Procs, u \in UserIds :
    /\ KthWrongFromZero(p, u, MAX_LOGIN_ATTEMPTS)
         => req[p].result = InvalidCredentials
    /\ SixthWithinWindow(p, u) => req[p].result = LockedRemaining

\* C10 amended: the first four are answered with the generic error, the 5th
\* with the locked-account error (fixed text), and the 6th attempt within the
\* lock window with the locked-account error that states the remaining time.
FifthReportsLock ==
  \A p \in Procs, u \in UserIds :
    /\ \A k \in 1..(MAX_LOGIN_ATTEMPTS - 1) :
         KthWrongFromZero(p, u, k) => req[p].result = InvalidCredentials
    /\ KthWrongFromZero(p, u, MAX_LOGIN_ATTEMPTS) => req[p].result = LockedNow
    /\ SixthWithinWindow(p, u) => req[p].result = LockedRemaining

\* C10 witness: the 6th attempt within the lock window has been answered.
SixthAnswered ==
  \E p \in Procs, u \in UserIds :
    SixthWithinWindow(p, u) /\ req[p].result = LockedRemaining

\* the lock check of this login let it through to the password check
ReachedPasswordCheck(p) ==
  \/ ~req[p].sawLocked
  \/ req[p].sawLastFailed = Null
  \/ LOCK_DURATION_MS - (req[p].checkedAt - req[p].sawLastFailed) <= 0

\* a wrong-password login that reached the password check and has returned
WrongPasswordAnswered(p, u) ==
  /\ LoginOf(p, u)
  /\ req[p].pc = "done"
  /\ ReachedPasswordCheck(p)
  /\ ~PasswordIsRight(p, u)

\* C11: a wrong-password login whose increment brings failedLoginAttempts to
\* MAX_LOGIN_ATTEMPTS leaves accountLocked = TRUE persisted and fails with the
\* error that reports the lock; one that leaves the counter below the
\* threshold fails with the generic invalid-credentials error.
ThresholdCrossingReportsLock ==
  \A p \in Procs, u \in UserIds :
    WrongPasswordAnswered(p, u)
    => IF users[u].failedLoginAttempts >= MAX_LOGIN_ATTEMPTS
         THEN req[p].result = LockedNow /\ users[u].accountLocked
         ELSE req[p].result = InvalidCredentials /\ ~users[u].accountLocked

\* C11 witness: the login that found the counter one below the threshold has
\* been answered with the lock error.
CrossingLoginAnswered ==
  \E p \in Procs, u \in UserIds :
    /\ WrongPasswordAnswered(p, u)
    /\ req[p].sawAttempts = MAX_LOGIN_ATTEMPTS - 1
    /\ users[u].failedLoginAttempts = MAX_LOGIN_ATTEMPTS
    /\ req[p].result = LockedNow

(***************************************************************************)
(* Properties of the session store (SpecSession, SpecReaper).              *)
(***************************************************************************)
\* a login that has returned tokens for user u
LoginReturned(p, u) ==
  LoginOf(p, u) /\ req[p].pc = "done" /\ req[p].result = Ok

\* C5: when a login of a user has returned, the store holds at most one row
\* for that user, the row carries the refresh token this login returned, and
\* the refresh token returned by the user's previous login is not found by a
\* lookup by token.
SingleSessionPerUser ==
  \A p \in Procs, u \in UserIds :
    LoginReturned(p, u)
    => ( /\ Cardinality(RowsOfUser(u)) <= 1
         /\ \A i \in RowsOfUser(u) :
              sessions[i].refreshToken = req[p].refreshToken
         /\ client[u].previous # NoToken
              => RowsWithToken(client[u].previous) = {} )

\* a password reset that has returned successfully
ResetReturned(p) ==
  req[p].op = "reset" /\ req[p].pc = "done" /\ req[p].result = Ok

\* C6: when resetUserPassword(userId, cookie, p, p) has returned successfully,
\* the refresh token that userId held as a valid session token immediately
\* before the call is rejected by refreshAccessToken.
ResetInvalidatesSession ==
  \A p \in Procs :
    ( ResetReturned(p) /\ req[p].heldBefore # NoToken )
    => refreshAccessTokenResult(req[p].heldBefore) # Ok

\* the reaper never fails
ReaperNeverFails ==
  \A p \in Procs :
    ( req[p].op = "cron" /\ req[p].pc = "done" ) => req[p].result = Ok

\* C8 as claimed: a run of the reaper that follows a run of the same reaper
\* with no session created in between deletes zero rows, and no run fails.
ReaperIdempotent ==
  /\ ( reap.inRow /\ reap.kind = reap.prevKind ) => reap.deleted = 0
  /\ ReaperNeverFails

\* C8 amended: a run of the reaper that follows another run with no session
\* created in between, and whose cutoff is not later than the cutoff of that
\* run, deletes zero rows; no run fails.
ReaperIdempotentAtCutoff ==
  /\ ( reap.inRow /\ reap.cutoff <= reap.prevCutoff ) => reap.deleted = 0
  /\ ReaperNeverFails

\* C8 witness: the first of two such runs deleted rows, the second has run
\* with a cutoff that is not later and has returned.
SecondRunAtSameCutoff ==
  \E p \in Procs :
    /\ req[p].op = "cron"
    /\ req[p].pc = "done"
    /\ reap.inRow
    /\ reap.cutoff <= reap.prevCutoff
    /\ reap.prevDeleted > 0

\* C9: the access token and the refresh token returned by one login carry the
\* same payload; the access token is refused by verifyRefreshToken and by
\* refreshAccessToken, and the refresh token is refused by verifyAccessToken.
TokenIndependence ==
  \A u \in UserIds :
    client[u].refreshToken # NoToken
    => ( /\ PayloadOf(client[u].accessToken) = PayloadOf(client[u].refreshToken)
         /\ ~verifyRefreshTokenOk(client[u].accessToken)
         /\ refreshAccessTokenResult(client[u].accessToken) # Ok
         /\ ~verifyAccessTokenOk(client[u].refreshToken) )

\* C9 witness: refreshAccessToken has refused an access token that is still
\* accepted as an access token, while the refresh token of the same login is
\* still accepted as a refresh token.
AccessTokenRefusedAsCookie ==
  \E p \in Procs, u \in UserIds :
    /\ req[p].op = "refresh"
    /\ req[p].pc = "done"
    /\ req[p].cookie = client[u].accessToken
    /\ req[p].result # Ok
    /\ verifyAccessTokenOk(client[u].accessToken)
    /\ verifyRefreshTokenOk(client[u].refreshToken)

\* resetUserPassword was called with a cookie, for an existing user, with a
\* new password that differs from its confirmation, and has returned
ResetMismatchReturned(p) ==
  /\ req[p].op = "reset"
  /\ req[p].pc = "done"
  /\ req[p].result.error # "AuthorizationError"
  /\ req[p].cookie # NoToken
  /\ req[p].userId \in UserIds
  /\ req[p].password # req[p].confirmPassword

\* the stored state is as it was when the handler was entered
StoredStateUnchanged(p) ==
  users = req[p].before.users /\ sessions = req[p].before.sessions

\* C12: resetUserPassword with a new password that differs from its
\* confirmation fails with a validation-class error saying that the passwords
\* do not match, writes nothing to the user record and deletes no session row.
ResetMismatchIsValidationError ==
  \A p \in Procs :
    ResetMismatchReturned(p)
    => ( /\ req[p].result = Err("ValidationError", "Passwords do not match.")
         /\ StoredStateUnchanged(p) )

\* refreshAccessToken has returned
RefreshReturned(p) == req[p].op = "refresh" /\ req[p].pc = "done"

\* C13: refreshAccessToken changes no stored state: on success it returns a
\* new access token and nothing else, on failure no token, and in both cases
\* the session rows and the user records are as they were before the call.
RefreshChangesNothing ==
  \A p \in Procs :
    RefreshReturned(p)
    => ( /\ StoredStateUnchanged(p)
         /\ req[p].refreshToken = NoToken
         /\ req[p].result = Ok <=> req[p].accessToken # NoToken )

\* C13 witness: a refresh has succeeded on a stored session row.
RefreshSucceeded ==
  \E p \in Procs :
    /\ RefreshReturned(p)
    /\ req[p].result = Ok
    /\ RowsWithToken(req[p].cookie) # {}

LogoutReturned(p) ==
  /\ req[p].op = "logout"
  /\ req[p].pc = "done"
  /\ req[p].cookie # NoToken

\* the session rows holding the cookie when the logout was called
RowsHeldBefore(p) ==
  {i \in DOMAIN req[p].before.sessions :
     req[p].before.sessions[i].refreshToken = req[p].cookie}

\* the errors of the not-found class
NotFoundClass == {"ConflictError", "NotFoundError"}

\* C15: logoutUser(t) deletes a row holding t; a logoutUser(t) that finds no
\* row holding t (a second logout with the same token, or any token that
\* matches no row) fails with an error of the not-found class, not with an
\* internal error, and leaves the stored state unchanged.
LogoutReplayIsNotFound ==
  \A p \in Procs :
    LogoutReturned(p)
    => IF RowsHeldBefore(p) = {}
         THEN /\ req[p].result.error \in NotFoundClass
              /\ StoredStateUnchanged(p)
         ELSE /\ req[p].result = Ok
              /\ sessions = RemoveAt(req[p].before.sessions, Min(RowsHeldBefore(p)))
              /\ users = req[p].before.users

\* C16: a logout request whose cookie matches no session row is answered as
\* a successful logout and the client's session cookie is cleared.
LogoutOfAbsentSessionSucceeds ==
  \A p \in Procs :
    (LogoutReturned(p) /\ RowsHeldBefore(p) = {})
    => ( /\ req[p].response.status = HTTP_STATUS.OK
         /\ req[p].response.clearCookie )

\* the refresh token was replaced in the store by a newer login of its user
ReplacedByNewerLogin(token) ==
  token # NoToken /\ \E u \in UserIds : client[u].previous = token

\* C18: refreshAccessToken(t) succeeds only if a session row with refreshToken
\* = t exists when it is called, and a refreshAccessToken(t) made after the row
\* holding t was replaced by a newer login of the same user fails.
RevokedTokenIsRefused ==
  \A p \in Procs :
    RefreshReturned(p)
    => ( /\ req[p].result = Ok => RowsHeldBefore(p) # {}
         /\ ReplacedByNewerLogin(req[p].cookie) => req[p].result # Ok )

(***************************************************************************)
(* Properties of the rate limiter (SpecLimiter).                           *)
(***************************************************************************)
\* this step is taken by a login request (limiter or authenticateUser)
LoginStepOf(p) ==
  /\ req'[p] # req[p]
  /\ req'[p].op = "login" \/ req[p].op = "login"

\* the username of the login request taking this step
StepUsername(p) ==
  IF req'[p].op = "login" THEN req'[p].username ELSE req[p].username

\* this step is the limiter's pass over a new login request
LimiterStepOf(p) ==
  req[p].pc = "idle" /\ req'[p].op = "login"

\* C7: every step of a login whose username resolves to an existing user
\* leaves the per-IP records unchanged, whatever the password; the limiter's
\* pass over a login whose username matches no user increments the count of
\* the request's address, and no other step of a login changes a record.
IpThrottlingScope ==
  [][ \A p \in Procs :
        LoginStepOf(p)
        => IF UserByUsername(StepUsername(p)) # {}
             THEN failedByIp' = failedByIp
           ELSE IF LimiterStepOf(p)
             THEN /\ failedByIp'[req'[p].ip].count
                       = failedByIp[req'[p].ip].count + 1
                  /\ \A ip \in IPs \ {req'[p].ip} :
                       failedByIp'[ip] = failedByIp[ip]
           ELSE failedByIp' = failedByIp ]_vars

\* C7 witness: a wrong-password login of an existing user has been answered
\* from an address whose record counts earlier unknown-username attempts.
KnownUserLoginOnCountedIp ==
  \E p \in Procs :
    /\ req[p].op = "login"
    /\ req[p].pc = "done"
    /\ UserByUsername(req[p].username) # {}
    /\ req[p].result = InvalidCredentials
    /\ failedByIp[req[p].ip].present
    /\ failedByIp[req[p].ip].count > 0

\* a login with a username of no account that passed the rate limiter and has
\* been answered by authenticateUser
UnknownUsernameAnswered(p) ==
  /\ req[p].op = "login"
  /\ req[p].pc = "done"
  /\ req[p].entered
  /\ UserByUsername(req[p].username) = {}

\* a login of an existing account with a wrong password that passed the rate
\* limiter, found the account unlocked and left its counter below the threshold
WrongPasswordBelowThreshold(p) ==
  \E u \in UserIds :
    /\ WrongPasswordAnswered(p, u)
    /\ req[p].entered
    /\ users[u].failedLoginAttempts < MAX_LOGIN_ATTEMPTS

\* C17: a failed login that neither hits nor triggers a lock gets the same
\* answer (same class, same message) whether the username is unknown or the
\* username exists and the password is wrong.
EnumerationResistance ==
  \A p \in Procs :
    (UnknownUsernameAnswered(p) \/ WrongPasswordBelowThreshold(p))
    => req[p].result = InvalidCredentials

\* C17 witness: an unknown username has been answered by authenticateUser
\* from an address that has been counted before.
UnknownUsernameRefused ==
  \E p \in Procs :
    /\ UnknownUsernameAnswered(p)
    /\ failedByIp[req[p].ip].count > 1

\* the record of the address holds a lock time that has not been reached
IpLockedNow(ip) == failedByIp[ip].present /\ now < failedByIp[ip].lockTime

\* C19: while the lock of an address is active (now < lockTime), the limiter
\* rejects every login request from that address with too-many-requests
\* before authenticateUser is entered, whether the username exists or not;
\* the request issues no tokens and changes no user record and no session.
IpLockRejectsEveryLogin ==
  [][ \A p \in Procs :
        (LimiterStepOf(p) /\ IpLockedNow(req'[p].ip))
        => ( /\ req'[p].pc = "done"
             /\ req'[p].result = TooManyRequests
             /\ ~req'[p].entered
             /\ req'[p].accessToken = NoToken
             /\ req'[p].refreshToken = NoToken
             /\ users' = users
             /\ sessions' = sessions
             /\ client' = client ) ]_vars

\* C19 witness: a login with an existing username and its right password has
\* been rejected by the limiter from an address whose lock is still active.
RightPasswordRefusedByIpLock ==
  \E p \in Procs, u \in UserIds :
    /\ req[p].op = "login"
    /\ req[p].pc = "done"
    /\ req[p].username = UsernameOf[u]
    /\ PasswordIsRight(p, u)
    /\ req[p].result = TooManyRequests
    /\ IpLockedNow(req[p].ip)

\* this step is the limiter's pass over a login from ip with an unknown username
UnknownUsernameStepFrom(p, ip) ==
  /\ LimiterStepOf(p)
  /\ req'[p].ip = ip
  /\ UserByUsername(req'[p].username) = {}

\* C20: the lock time of an address is set (lockTime = now + window, request
\* rejected with too-many-requests) only by an unknown-username attempt that
\* makes the count of the address exceed maxRequests, and the first
\* maxRequests unknown-username attempts from an unlocked address pass the
\* limiter and reach the login handler.
IpLockOnlyBeyondMaximum ==
  [][ \A ip \in IPs :
        /\ failedByIp'[ip].lockTime > failedByIp[ip].lockTime
             => \E p \in Procs :
                  /\ UnknownUsernameStepFrom(p, ip)
                  /\ failedByIp'[ip].count > maxRequests
                  /\ failedByIp'[ip].lockTime = now + windowMs
                  /\ req'[p].result = TooManyRequests
        /\ \A p \in Procs :
             ( /\ UnknownUsernameStepFrom(p, ip)
               /\ ~IpLockedNow(ip)
               /\ failedByIp'[ip].count <= maxRequests )
             => req'[p].pc = "authenticate" ]_vars

\* the lock window of the record of ip has elapsed
IpWindowElapsed(ip) ==
  /\ failedByIp[ip].present
  /\ failedByIp[ip].lockTime # 0
  /\ now >= failedByIp[ip].lockTime

\* the timer that deletes the record of ip is pending
ClearingScheduled(ip) == timeoutId.armed /\ timeoutId.ip = ip

\* C21: the record of every address that became locked is cleared once its
\* lock window has elapsed, also when other addresses became locked in the
\* meantime: a record whose window has elapsed is about to be deleted by its
\* timer (it never stays behind with no clearing scheduled).
IpRecordClearedAfterWindow ==
  \A ip \in IPs : IpWindowElapsed(ip) => ClearingScheduled(ip)

\* this step is the first save of the failure path of request p, made for an
\* account that is not locked and that the request did not find locked
FailureSaveOf(p) ==
  /\ req[p].pc = "save1"
  /\ req'[p].pc # "save1"
  /\ ~req[p].sawLocked
  /\ ~users[req[p].userId].accountLocked

\* C22: for any interleaving of overlapping wrong-password logins against one
\* account, every failed attempt adds 1 to the persisted failedLoginAttempts
\* (no update is lost).
NoLostFailure ==
  [][ \A p \in Slots :
        FailureSaveOf(p)
        => users'[req[p].userId].failedLoginAttempts
             = users[req[p].userId].failedLoginAttempts + 1 ]_vars

\* C23: for any interleaving of overlapping successful logins of one user
\* (also when the user has no session row yet) the store never holds a second
\* row for the same userId, and once the logins have been answered the one
\* row of the user holds the refresh token of the upsert applied last.
LastWriterWinsOneRow ==
  \A u \in UserIds :
    /\ Cardinality(RowsOfUser(u)) <= 1
    /\ (NoRequestInFlight /\ RowsOfUser(u) # {})
         => \A i \in RowsOfUser(u) : sessions[i].refreshToken = client[u].refreshToken

\* a login of u has just been answered with the error that reports a new lock
LockJustSet(p, u) ==
  /\ LoginOf(p, u)
  /\ req[p].pc = "done"
  /\ req[p].result = LockedNow

\* C24: an account becomes locked only when MAX_LOGIN_ATTEMPTS wrong-password
\* attempts have been made since its last successful login: a successful
\* login restarts the count.
LockNeedsFullRun ==
  \A p \in Procs, u \in UserIds :
    LockJustSet(p, u) => run[u].count >= MAX_LOGIN_ATTEMPTS

\* a request to a protected route has been answered
ProtectedReturned(p) == req[p].op = "profile" /\ req[p].pc = "done"

RejectedByActiveLock(p, u) ==
  LoginOf(p, u) /\ req[p].pc = "done" /\ req[p].result = LockedRemaining

\* C26: a login rejected because the account lock is still active leaves
\* failedLoginAttempts, lastFailedLoginDate and accountLocked of the record as
\* they were read, so the lock ends at lastFailedLoginDate + LOCK_DURATION_MS:
\* the rejection happens only before that instant, and a login checked at or
\* after it is not rejected by the lock.
LockedRejectionChangesNothing ==
  \A p \in Procs, u \in UserIds :
    /\ RejectedByActiveLock(p, u) =>
         /\ users[u].failedLoginAttempts = req[p].sawAttempts
         /\ users[u].lastFailedLoginDate = req[p].sawLastFailed
         /\ users[u].accountLocked = req[p].sawLocked
         /\ req[p].sawLocked
         /\ req[p].checkedAt < req[p].sawLastFailed + LOCK_DURATION_MS
    /\ ( /\ LoginOf(p, u)
         /\ PastLockCheck(p)
         /\ req[p].sawLocked
         /\ req[p].sawLastFailed # Null
         /\ req[p].checkedAt >= req[p].sawLastFailed + LOCK_DURATION_MS )
         => req[p].result # LockedRemaining

\* C26 witness: a login with a wrong password has been rejected by the active
\* lock, after an earlier rejection by the same lock.
WrongPasswordRejectedByLock ==
  \E p \in Procs, u \in UserIds :
    /\ RejectedByActiveLock(p, u)
    /\ ~comparePasswords(req[p].password, users[u].password)
    /\ req[p].runBefore.count > MAX_LOGIN_ATTEMPTS

\* resetUserPassword has returned an error for the user of its access token
ResetFailed(p) ==
  /\ req[p].op = "reset"
  /\ req[p].pc = "done"
  /\ req[p].result.status = "error"
  /\ req[p].userId \in UserIds

\* C27: whenever resetUserPassword returns an error (missing cookie, unknown
\* user, password mismatch, or a cookie that matches no session row), the
\* stored password hash and the reset flag of the user are as they were
\* before the call.
ResetAllOrNothing ==
  \A p \in Procs :
    ResetFailed(p)
    => ( /\ users[req[p].userId].password = req[p].before.users[req[p].userId].password
         /\ users[req[p].userId].resetPassword
              = req[p].before.users[req[p].userId].resetPassword )

\* resetUserPassword has returned, with or without an error
ResetCallReturned(p) == req[p].op = "reset" /\ req[p].pc = "done"

\* the session rows that other users than userId had when the call was made
RowsOfOthersBefore(p) ==
  {i \in DOMAIN req[p].before.sessions :
     req[p].before.sessions[i].userId # req[p].userId}

\* C28: resetUserPassword(userId, cookie, ...) never removes the session row
\* of a different user, whatever the cookie: every row that another user had
\* before the call is still stored when the call has returned.
ResetSparesOtherUsers ==
  \A p \in Procs :
    ResetCallReturned(p)
    => \A i \in RowsOfOthersBefore(p) :
         \E j \in DOMAIN sessions : sessions[j] = req[p].before.sessions[i]

\* the persisted record of a locked account carries its lock data
LockedRecordIsComplete(user) ==
  /\ user.lastFailedLoginDate # Null
  /\ user.failedLoginAttempts >= MAX_LOGIN_ATTEMPTS

\* C29: under any interleaving of overlapping logins for one account, each
\* reading the record once and each save writing only its modified fields,
\* every persisted record with accountLocked set has a non-null
\* lastFailedLoginDate and failedLoginAttempts >= MAX_LOGIN_ATTEMPTS.
LockedRecordUnderOverlap ==
  \A u \in UserIds :
    (users[u].present /\ users[u].accountLocked) => LockedRecordIsComplete(users[u])

\* the persisted record is locked and its lock duration has not elapsed
LockedAndNotElapsed(user) ==
  /\ user.accountLocked
  /\ user.lastFailedLoginDate # Null
  /\ LockStillActive(user.lastFailedLoginDate)

CounterInRange(user) ==
  0 <= user.failedLoginAttempts /\ user.failedLoginAttempts <= MAX_LOGIN_ATTEMPTS

\* C30: for logins that do not overlap, the persisted failedLoginAttempts stays
\* within 0..MAX_LOGIN_ATTEMPTS, and no step increments it while the account
\* is locked and the lock has not elapsed.
BoundedCounter ==
  /\ [](\A u \in UserIds : CounterInRange(users[u]))
  /\ [][\A u \in UserIds :
          LockedAndNotElapsed(users[u])
          => users'[u].failedLoginAttempts <= users[u].failedLoginAttempts]_vars

\* C30 witness: the counter stands at MAX_LOGIN_ATTEMPTS and a login with a
\* wrong password has been turned away by the lock without being counted.
CounterAtMaximumNotCounted ==
  \E p \in Procs, u \in UserIds :
    /\ RejectedByActiveLock(p, u)
    /\ ~comparePasswords(req[p].password, users[u].password)
    /\ users[u].failedLoginAttempts = MAX_LOGIN_ATTEMPTS
    /\ LockedAndNotElapsed(users[u])

====
